---- MODULE Spec2Model ----
(***************************************************************************)
(* Game of Life on the K210 board: rust/game-of-life/src/main.rs.          *)
(* The Universe (two cell buffers and the selector `cur`), the touch       *)
(* mapping, the renderer and the main loop, as a state machine.            *)
(***************************************************************************)
EXTENDS Integers, Sequences, FiniteSets, TLC

(***************************************************************************)
(* Bounds of the model.  The board's display is 320x240 pixels; the model  *)
(* keeps the block size of 8 and shrinks the display to a few blocks.      *)
(***************************************************************************)
DispBlocksX == 5
DispBlocksY == 5
MaxSteps == 4
TouchFrames == 1
MaxOps == 3

(***************************************************************************)
(* Constants of the program.  DISP_WIDTH and DISP_HEIGHT come from         *)
(* k210_shared::board::def; here they are the bounded number of blocks     *)
(* times the block size, so that GRID_WIDTH and GRID_HEIGHT divide as in   *)
(* lines 22-23.                                                            *)
(***************************************************************************)
BLK_SIZE == 8
DISP_WIDTH == DispBlocksX * BLK_SIZE
DISP_HEIGHT == DispBlocksY * BLK_SIZE
GRID_WIDTH == DISP_WIDTH \div BLK_SIZE
GRID_HEIGHT == DISP_HEIGHT \div BLK_SIZE
PRESSURE_DIV == 300

GridCells == GRID_WIDTH * GRID_HEIGHT
ImageWords == (DISP_WIDTH * DISP_HEIGHT) \div 2

\* A u32 pixel word `(a << 16) | b` is kept as the pair <<a, b>> of its halves.
P0 == 14535   \* 0x38c7
P1 == 29070   \* 0x718e
P2 == 43605   \* 0xaa55
P3 == 58140   \* 0xe31c
BLOCK_SPRITE ==
  << << <<P0,P0>>, <<P0,P0>>, <<P0,P0>>, <<P0,P0>> >>,
     << <<P0,P1>>, <<P1,P1>>, <<P1,P1>>, <<P1,P0>> >>,
     << <<P0,P1>>, <<P2,P2>>, <<P2,P2>>, <<P1,P0>> >>,
     << <<P0,P1>>, <<P2,P3>>, <<P3,P2>>, <<P1,P0>> >>,
     << <<P0,P1>>, <<P2,P3>>, <<P3,P2>>, <<P1,P0>> >>,
     << <<P0,P1>>, <<P2,P2>>, <<P2,P2>>, <<P1,P0>> >>,
     << <<P0,P1>>, <<P1,P1>>, <<P1,P1>>, <<P1,P0>> >>,
     << <<P0,P0>>, <<P0,P0>>, <<P0,P0>>, <<P0,P0>> >> >>
ZeroWord == <<0, 0>>

(***************************************************************************)
(* Universe                                                                *)
(***************************************************************************)
New ==
  [state |-> [b \in 0..1 |-> [i \in 0..(GridCells - 1) |-> FALSE]], cur |-> 0]

\* The array index of cell (x, y), and Rust's bounds check on it.
CellIndex(x, y) == y * GRID_WIDTH + x
IndexPanics(x, y) == CellIndex(x, y) >= GridCells

Get(u, x, y) == u.state[u.cur][CellIndex(x, y)]

\* set writing buffer 0 whatever the selector says.
SetBufferZero(u, x, y, s) == [u EXCEPT !.state[0][CellIndex(x, y)] = s]
Set(u, x, y, s) == [u EXCEPT !.state[u.cur][CellIndex(x, y)] = s]

\* toggle inverting the cell in the buffer that is not the current one.
ToggleOtherBuffer(u, x, y) ==
  [u EXCEPT !.state[1 - u.cur][CellIndex(x, y)] = (@ # TRUE)]
ToggleSetsAlive(u, x, y) == [u EXCEPT !.state[u.cur][CellIndex(x, y)] = TRUE]
Toggle(u, x, y) == [u EXCEPT !.state[u.cur][CellIndex(x, y)] = (@ # TRUE)]

\* wrap around y / wrap around x
XpClamped(x) == IF x = 0 THEN 0 ELSE x - 1
Yprev(y) == IF y = 0 THEN GRID_HEIGHT - 1 ELSE y - 1
Ynext(y) == IF y = GRID_HEIGHT - 1 THEN 0 ELSE y + 1
Xprev(x) == IF x = 0 THEN GRID_WIDTH - 1 ELSE x - 1
Xnext(x) == IF x = GRID_WIDTH - 1 THEN 0 ELSE x + 1

\* `bool as u32`
AsU32(b) == IF b THEN 1 ELSE 0

NeighbourCount(u, x, y) ==
  LET ypi == Yprev(y) * GRID_WIDTH
      yi  == y * GRID_WIDTH
      yni == Ynext(y) * GRID_WIDTH
      xp  == Xprev(x)
      xn  == Xnext(x)
      c   == u.state[u.cur]
  IN  AsU32(c[ypi + xp]) + AsU32(c[ypi + x]) + AsU32(c[ypi + xn]) +
      AsU32(c[yi + xp]) + AsU32(c[yi + xn]) +
      AsU32(c[yni + xp]) + AsU32(c[yni + x]) + AsU32(c[yni + xn])

\* The match on (state, count), arm by arm in order.
RuleNoBirth(alive, count) ==
  IF alive /\ count < 2 THEN FALSE
  ELSE IF alive /\ (count = 2 \/ count = 3) THEN TRUE
  ELSE IF alive /\ count > 3 THEN FALSE
  ELSE alive
RuleOvercrowdedLives(alive, count) ==
  IF alive /\ count < 2 THEN FALSE
  ELSE IF alive /\ (count = 2 \/ count = 3) THEN TRUE
  ELSE IF ~alive /\ count = 3 THEN TRUE
  ELSE alive
Rule(alive, count) ==
  IF alive /\ count < 2 THEN FALSE
  ELSE IF alive /\ (count = 2 \/ count = 3) THEN TRUE
  ELSE IF alive /\ count > 3 THEN FALSE
  ELSE IF ~alive /\ count = 3 THEN TRUE
  ELSE alive

\* The buffer the sweep writes, and the selector after the sweep.
WriteBufInPlace(c) == c
WriteBuf(c) == 1 - c
FlipNever(c) == c
Flip(c) == 1 - c

\* The loop body writing the scratch buffer only where the cell changes.
IterateCellSkipsUnchanged(acc, x, y) ==
  LET u     == acc.u
      yi    == y * GRID_WIDTH
      count == NeighbourCount(u, x, y)
      next  == Rule(u.state[u.cur][yi + x], count)
  IN  [u |-> [u EXCEPT !.state[WriteBuf(u.cur)][yi + x] =
                          IF next = u.state[u.cur][yi + x] THEN @ ELSE next],
       count |-> [acc.count EXCEPT ![yi + x] = count]]

\* One pass of the inner loop body for cell (x, y): acc.u is the universe
\* as the sweep has left it so far, acc.count the counts computed so far.
IterateCell(acc, x, y) ==
  LET u     == acc.u
      yi    == y * GRID_WIDTH
      count == NeighbourCount(u, x, y)
  IN  [u |-> [u EXCEPT !.state[WriteBuf(u.cur)][yi + x] =
                          Rule(u.state[u.cur][yi + x], count)],
       count |-> [acc.count EXCEPT ![yi + x] = count]]

RECURSIVE Sweep(_, _)
Sweep(acc, k) ==
  IF k = GridCells THEN acc
  ELSE Sweep(IterateCell(acc, k % GRID_WIDTH, k \div GRID_WIDTH), k + 1)

ZeroCounts == [i \in 0..(GridCells - 1) |-> 0]

IterateRun(u) ==
  LET acc == Sweep([u |-> u, count |-> ZeroCounts], 0)
  IN  [u |-> [acc.u EXCEPT !.cur = Flip(u.cur)], count |-> acc.count]

Iterate(u) == IterateRun(u).u

\* The seed with its last set() call left out.
SeedFourCells(u) ==
  LET cx == GRID_WIDTH \div 2
      cy == GRID_HEIGHT \div 2
      u1 == Set(u,  cx + 0, cy - 1, TRUE)
      u2 == Set(u1, cx + 1, cy + 0, TRUE)
      u3 == Set(u2, cx - 1, cy + 1, TRUE)
  IN  Set(u3, cx + 0, cy + 1, TRUE)

\* The five set() calls of main: the glider 010 / 001 / 111.
Seed(u) ==
  LET cx == GRID_WIDTH \div 2
      cy == GRID_HEIGHT \div 2
      u1 == Set(u,  cx + 0, cy - 1, TRUE)
      u2 == Set(u1, cx + 1, cy + 0, TRUE)
      u3 == Set(u2, cx - 1, cy + 1, TRUE)
      u4 == Set(u3, cx + 0, cy + 1, TRUE)
  IN  Set(u4, cx + 1, cy + 1, TRUE)

(***************************************************************************)
(* Input mapping: one touch sample to toggle calls                         *)
(***************************************************************************)
\* Division rounding toward minus infinity.
I32DivFloors(a, b) == a \div b

\* i32 division truncates toward zero.
I32Div(a, b) == IF a >= 0 THEN a \div b ELSE -((-a) \div b)

\* `i as usize` on the 64-bit target: the sign-extended two's complement
\* value, kept as four 16-bit limbs, most significant first.
Limb == 65536
AsUsize(i) ==
  LET ext == IF i < 0 THEN Limb - 1 ELSE 0
  IN  << ext, ext, (i \div Limb) % Limb, i % Limb >>

\* a < b on usize values.
UsizeLess(a, b) ==
  \E k \in 1..4 : a[k] < b[k] /\ \A j \in 1..(k - 1) : a[j] = b[j]

\* The value of a usize that is known to be below 2^31.
UsizeValue(a) == a[3] * Limb + a[4]

\* The test of line 195: it compares with the display size in pixels.
BoundCheck(xi, yi) ==
  /\ UsizeLess(AsUsize(xi), AsUsize(DISP_WIDTH))
  /\ UsizeLess(AsUsize(yi), AsUsize(DISP_HEIGHT))

TouchX(ev) == I32Div(ev.x, BLK_SIZE)
TouchY(ev) == I32Div(ev.y, BLK_SIZE)
TouchR(ev) == I32Div(ev.z, PRESSURE_DIV) + 1

\* The coordinates the two `for` loops visit, in the order they visit them:
\* yi in y-r..y+r+1 outside, xi in x-r..x+r+1 inside.
TouchSquare(ev) ==
  LET x    == TouchX(ev)
      y    == TouchY(ev)
      r    == TouchR(ev)
      side == 2 * r + 1
  IN  IF side <= 0 THEN << >>
      ELSE [k \in 1..(side * side) |->
              << x - r + ((k - 1) % side), y - r + ((k - 1) \div side) >>]

\* The loop body over the visited coordinates from position k on.  acc.u is
\* the universe so far, acc.calls the toggle calls made so far (arguments as
\* passed), acc.panic whether an index was out of the array's bounds.
RECURSIVE TouchLoop(_, _, _)
TouchLoop(acc, sq, k) ==
  IF k > Len(sq) THEN acc
  ELSE LET xi == sq[k][1]
           yi == sq[k][2]
       IN  IF BoundCheck(xi, yi)
           THEN LET ux == UsizeValue(AsUsize(xi))
                    uy == UsizeValue(AsUsize(yi))
                    called == Append(acc.calls, <<ux, uy>>)
                IN  IF IndexPanics(ux, uy)
                    THEN [u |-> acc.u, calls |-> called, panic |-> TRUE]
                    ELSE TouchLoop([u |-> Toggle(acc.u, ux, uy),
                                    calls |-> called, panic |-> FALSE],
                                   sq, k + 1)
           ELSE TouchLoop(acc, sq, k + 1)

ApplyTouch(u, ev) ==
  TouchLoop([u |-> u, calls |-> << >>, panic |-> FALSE], TouchSquare(ev), 1)

(***************************************************************************)
(* Renderer                                                                *)
(***************************************************************************)
\* idx of line 206, with Rust's precedence and integer division.
ImageIdxNoRow(x, y, xi, yi) ==
  ((y * BLK_SIZE) * DISP_WIDTH) \div 2 + (x * BLK_SIZE) \div 2 + xi
ImageIdx(x, y, xi, yi) ==
  ((y * BLK_SIZE + yi) * DISP_WIDTH) \div 2 + (x * BLK_SIZE) \div 2 + xi

\* The four nested loops, innermost first.  acc.image is the buffer,
\* acc.written how often each word was assigned, acc.panic whether an index
\* was out of the buffer's bounds.
SpriteWord(state, yi, xi) ==
  IF state THEN BLOCK_SPRITE[yi + 1][xi + 1] ELSE ZeroWord

\* `for xi in 0..BLK_SIZE/2`: the four assignments of one sprite row, in order.
RenderXi(acc, u, x, y, yi) ==
  LET state == Get(u, x, y)
      i0 == ImageIdx(x, y, 0, yi)
      i1 == ImageIdx(x, y, 1, yi)
      i2 == ImageIdx(x, y, 2, yi)
      i3 == ImageIdx(x, y, 3, yi)
  IN  IF i0 >= ImageWords \/ i1 >= ImageWords \/ i2 >= ImageWords \/ i3 >= ImageWords
      THEN [acc EXCEPT !.panic = TRUE]
      ELSE [image   |-> [acc.image EXCEPT ![i0] = SpriteWord(state, yi, 0),
                                          ![i1] = SpriteWord(state, yi, 1),
                                          ![i2] = SpriteWord(state, yi, 2),
                                          ![i3] = SpriteWord(state, yi, 3)],
            written |-> [acc.written EXCEPT ![i0] = @ + 1, ![i1] = @ + 1,
                                            ![i2] = @ + 1, ![i3] = @ + 1],
            panic   |-> FALSE]

RECURSIVE RenderYi(_, _, _, _, _)
RenderYi(acc, u, x, y, yi) ==
  IF acc.panic \/ yi = BLK_SIZE THEN acc
  ELSE RenderYi(RenderXi(acc, u, x, y, yi), u, x, y, yi + 1)

RECURSIVE RenderX(_, _, _, _)
RenderX(acc, u, x, y) ==
  IF acc.panic \/ x = GRID_WIDTH THEN acc
  ELSE RenderX(RenderYi(acc, u, x, y, 0), u, x + 1, y)

RECURSIVE RenderY(_, _, _)
RenderY(acc, u, y) ==
  IF acc.panic \/ y = GRID_HEIGHT THEN acc
  ELSE RenderY(RenderX(acc, u, 0, y), u, y + 1)

Render(img, u) ==
  RenderY([image |-> img,
           written |-> [i \in 0..(ImageWords - 1) |-> 0],
           panic |-> FALSE], u, 0)

(***************************************************************************)
(* State                                                                   *)
(***************************************************************************)
VARIABLES
  pc,        \* where main is: "init", "poll", "render", "flush", "iterate",
             \* "aborted"; "engine" when the Universe is driven on its own
  universe,  \* the Universe: [state, cur]
  image,     \* the ScreenImage
  ev,        \* what the last poll returned
  fault,     \* why the process aborted: "none", "init", "index"
  steps,     \* number of iterate() calls so far, counted up to MaxSteps
  touches,   \* number of touch samples processed so far
  before,    \* the Universe before the last call that changed it
  count,     \* the neighbour counts the last iterate() computed
  calls,     \* the toggle calls the last touch sample led to
  written,   \* how often the last render assigned each word of the image
  lastOp,    \* the last Universe call, when driven on its own
  prevOp,    \* the Universe call before that
  before2,   \* the Universe before prevOp
  ops,       \* number of Universe calls made when driven on its own
  log,       \* what main has done in the current iteration of its loop:
             \* "poll", one "toggle" per toggle call, "render", "flush", "step"
  flushed    \* the image the last draw_picture call handed to the display

vars == << pc, universe, image, ev, fault, steps, touches, before, count,
           calls, written, lastOp, prevOp, before2, ops, log, flushed >>

NoEvent == [some |-> FALSE, x |-> 0, y |-> 0, z |-> 0]
NoOp == [op |-> "none", x |-> 0, y |-> 0, s |-> FALSE]

\* Touch samples the collaborator may return: just left of the display
\* (a raw -1 and a raw -9), inside it, on its last pixel, and pressures
\* giving the radii 0 and 1.
TouchXs == {0 - 1, (GRID_WIDTH \div 2) * BLK_SIZE, DISP_WIDTH - 1}
TouchYs == {0 - 9, (GRID_HEIGHT \div 2) * BLK_SIZE, DISP_HEIGHT - 1}
TouchZs == {0 - PRESSURE_DIV, 0}
TouchSamples == [some : {TRUE}, x : TouchXs, y : TouchYs, z : TouchZs]

ZeroImage == [i \in 0..(ImageWords - 1) |-> ZeroWord]

\* Everything but pc at the start: the Universe as new() returns it, the
\* image as line 163 declares it.
InitData ==
  /\ universe = New
  /\ image = ZeroImage
  /\ ev = NoEvent
  /\ fault = "none"
  /\ steps = 0
  /\ touches = 0
  /\ before = New
  /\ count = ZeroCounts
  /\ calls = << >>
  /\ written = [i \in 0..(ImageWords - 1) |-> 0]
  /\ lastOp = NoOp
  /\ prevOp = NoOp
  /\ before2 = New
  /\ ops = 0
  /\ log = << >>
  /\ flushed = ZeroImage

Init ==
  /\ pc = "init"
  /\ InitData

engineVars == << lastOp, prevOp, before2, ops >>

(***************************************************************************)
(* main                                                                    *)
(***************************************************************************)
\* The failed initialisation noted, and main going on into its loop.
TouchInitFailsGoesOn ==
  /\ pc = "init"
  /\ pc' = "poll"
  /\ fault' = "init"
  /\ UNCHANGED << universe, image, ev, steps, touches, before, count, calls,
                  written, log, flushed, engineVars >>

\* TouchScreen::init returned None: the message, then panic!.
TouchInitFails ==
  /\ pc = "init"
  /\ pc' = "aborted"
  /\ fault' = "init"
  /\ UNCHANGED << universe, image, ev, steps, touches, before, count, calls,
                  written, log, flushed, engineVars >>

\* TouchScreen::init returned a filter: Universe::new and the glider.
TouchInitOk ==
  /\ pc = "init"
  /\ universe' = Seed(New)
  /\ before' = New
  /\ pc' = "poll"
  /\ UNCHANGED << image, ev, fault, steps, touches, count, calls, written,
                  log, flushed, engineVars >>

\* filter.poll() returned None.
PollNone ==
  /\ pc = "poll"
  /\ ev' = NoEvent
  /\ calls' = << >>
  /\ log' = << "poll" >>
  /\ pc' = "render"
  /\ UNCHANGED << universe, image, fault, steps, touches, before, count,
                  written, flushed, engineVars >>

\* filter.poll() returned Some(ev): lines 189-199.  Samples arrive during the
\* first TouchFrames iterations of the loop.
PollSome ==
  /\ pc = "poll"
  /\ steps < TouchFrames
  /\ \E e \in TouchSamples :
       LET res == ApplyTouch(universe, e)
       IN  /\ ev' = e
           /\ before' = universe
           /\ universe' = res.u
           /\ calls' = res.calls
           /\ log' = << "poll" >> \o [k \in 1..Len(res.calls) |-> "toggle"]
           /\ pc' = IF res.panic THEN "aborted" ELSE "render"
           /\ fault' = IF res.panic THEN "index" ELSE fault
  /\ touches' = touches + 1
  /\ UNCHANGED << image, steps, count, written, flushed, engineVars >>

\* The render phase drawing the grid as it was before the last change.
RenderFrameOfBefore ==
  /\ pc = "render"
  /\ LET res == Render(image, before)
     IN  /\ image' = res.image
         /\ written' = res.written
         /\ pc' = IF res.panic THEN "aborted" ELSE "flush"
         /\ fault' = IF res.panic THEN "index" ELSE fault
  /\ log' = Append(log, "render")
  /\ UNCHANGED << universe, ev, steps, touches, before, count, calls,
                  flushed, engineVars >>

\* Lines 201-211.
RenderFrame ==
  /\ pc = "render"
  /\ LET res == Render(image, universe)
     IN  /\ image' = res.image
         /\ written' = res.written
         /\ pc' = IF res.panic THEN "aborted" ELSE "flush"
         /\ fault' = IF res.panic THEN "index" ELSE fault
  /\ log' = Append(log, "render")
  /\ UNCHANGED << universe, ev, steps, touches, before, count, calls,
                  flushed, engineVars >>

\* Flush with the loop going back to the poll, the step left out.
FlushSkipsStep ==
  /\ pc = "flush"
  /\ flushed' = image
  /\ log' = Append(log, "flush")
  /\ pc' = "poll"
  /\ UNCHANGED << universe, image, ev, fault, steps, touches, before, count,
                  calls, written, engineVars >>

\* lcd.draw_picture: the image goes to the display.
Flush ==
  /\ pc = "flush"
  /\ flushed' = image
  /\ log' = Append(log, "flush")
  /\ pc' = "iterate"
  /\ UNCHANGED << universe, image, ev, fault, steps, touches, before, count,
                  calls, written, engineVars >>

\* universe.iterate(), and back to the top of the loop.
IterateStep ==
  /\ pc = "iterate"
  /\ steps < MaxSteps
  /\ LET res == IterateRun(universe)
     IN  /\ universe' = res.u
         /\ count' = res.count
  /\ before' = universe
  /\ steps' = steps + 1
  /\ log' = Append(log, "step")
  /\ pc' = "poll"
  /\ UNCHANGED << image, ev, fault, touches, calls, written, flushed,
                  engineVars >>

Next ==
  \/ TouchInitFails
  \/ TouchInitOk
  \/ PollNone
  \/ PollSome
  \/ RenderFrame
  \/ Flush
  \/ IterateStep

Spec == Init /\ [][Next]_vars

(***************************************************************************)
(* main with its loop running on for ever: the steps after the counted     *)
(* ones, and every step of the program taken when it can be                *)
(***************************************************************************)
\* universe.iterate() once steps has reached MaxSteps, where the count stops.
IterateOn ==
  /\ pc = "iterate"
  /\ steps = MaxSteps
  /\ LET res == IterateRun(universe)
     IN  /\ universe' = res.u
         /\ count' = res.count
  /\ before' = universe
  /\ log' = Append(log, "step")
  /\ pc' = "poll"
  /\ UNCHANGED << image, ev, fault, steps, touches, calls, written, flushed,
                  engineVars >>

NextLive ==
  \/ Next
  \/ IterateOn

\* main leaves the position it is at.  Every position but "aborted" has a
\* step of NextLive that can be taken, and every step of NextLive moves pc.
ProgramStep ==
  /\ pc \in {"init", "poll", "render", "flush", "iterate"}
  /\ pc' \in {"poll", "render", "flush", "iterate", "aborted"}
  /\ pc' # pc

\* main is one sequential program: it does not stay for ever at a position
\* it can leave (poll and draw_picture return).
SpecLive == Init /\ [][NextLive]_vars /\ WF_pc(ProgramStep)

(***************************************************************************)
(* The Universe driven on its own: new(), main's seeding, then set, toggle   *)
(* and iterate in any order, with in-range coordinates.                    *)
(***************************************************************************)
EngineXs == {GRID_WIDTH \div 2, GRID_WIDTH - 1}
EngineYs == {GRID_HEIGHT \div 2, GRID_HEIGHT - 1}

driverVars == << image, ev, fault, touches, calls, written, log, flushed >>

InitEngine ==
  /\ pc = "engine"
  /\ InitData

Op(name, x, y, s) == [op |-> name, x |-> x, y |-> y, s |-> s]

Record(op) ==
  /\ prevOp' = lastOp
  /\ lastOp' = op
  /\ before2' = before
  /\ before' = universe

\* The five set() calls of lines 181-185.
EngSeed ==
  /\ pc = "engine"
  /\ lastOp = NoOp
  /\ universe' = Seed(universe)
  /\ Record(Op("seed", 0, 0, TRUE))
  /\ UNCHANGED << pc, steps, count, ops, driverVars >>

EngSet ==
  /\ pc = "engine"
  /\ ops < MaxOps
  /\ \E x \in EngineXs, y \in EngineYs, s \in BOOLEAN :
       /\ universe' = Set(universe, x, y, s)
       /\ Record(Op("set", x, y, s))
  /\ ops' = ops + 1
  /\ UNCHANGED << pc, steps, count, driverVars >>

EngToggle ==
  /\ pc = "engine"
  /\ ops < MaxOps
  /\ \E x \in EngineXs, y \in EngineYs :
       /\ universe' = Toggle(universe, x, y)
       /\ Record(Op("toggle", x, y, FALSE))
  /\ ops' = ops + 1
  /\ UNCHANGED << pc, steps, count, driverVars >>

EngIterate ==
  /\ pc = "engine"
  /\ ops < MaxOps
  /\ LET res == IterateRun(universe)
     IN  /\ universe' = res.u
         /\ count' = res.count
  /\ Record(Op("iterate", 0, 0, FALSE))
  /\ steps' = steps + 1
  /\ ops' = ops + 1
  /\ UNCHANGED << pc, driverVars >>

NextEngine ==
  \/ EngSeed
  \/ EngSet
  \/ EngToggle
  \/ EngIterate

SpecEngine == InitEngine /\ [][NextEngine]_vars

(***************************************************************************)
(* Reference definitions the properties are stated with                    *)
(***************************************************************************)
GridXs == 0..(GRID_WIDTH - 1)
GridYs == 0..(GRID_HEIGHT - 1)
Offsets == {d \in {0 - 1, 0, 1} \X {0 - 1, 0, 1} : d # <<0, 0>>}

\* The number of live cells among the eight torus neighbours of (x, y).
TorusCount(u, x, y) ==
  Cardinality({d \in Offsets :
                 Get(u, (x + d[1]) % GRID_WIDTH, (y + d[2]) % GRID_HEIGHT)})

\* The rule table: the next state of a cell from its state and a count.
TableNext(alive, n) ==
  IF alive THEN (IF n \in {0, 1} THEN FALSE
                 ELSE IF n \in {2, 3} THEN TRUE
                 ELSE FALSE)
  ELSE n = 3

\* The reference transition: every cell from the snapshot u alone.
ReferenceStep(u) ==
  [k \in 0..(GridCells - 1) |->
     LET x == k % GRID_WIDTH
         y == k \div GRID_WIDTH
     IN  TableNext(Get(u, x, y), TorusCount(u, x, y))]

LiveCells(u) == {c \in GridXs \X GridYs : Get(u, c[1], c[2])}

\* The universe is the result of iterate() applied to `before`.
AfterIterate ==
  \/ pc = "poll" /\ steps > 0
  \/ pc = "engine" /\ lastOp.op = "iterate"

\* The universe is the result of the touch sample ev applied to `before`.
AfterTouch == ev.some /\ pc \in {"render", "flush", "iterate", "aborted"}

\* The square [gx-r, gx+r] x [gy-r, gy+r] of the sample ev.
SquareOf(e) ==
  ((TouchX(e) - TouchR(e))..(TouchX(e) + TouchR(e))) \X
  ((TouchY(e) - TouchR(e))..(TouchY(e) + TouchR(e)))

InGrid(c) == c[1] \in GridXs /\ c[2] \in GridYs

Called(c) == \E k \in 1..Len(calls) : calls[k] = c

\* C1: after a step every cell's state is the rule table's value for its
\* pre-step state and the live-neighbour count taken for it: live with 0 or
\* 1 dies, live with 2 or 3 lives, live with 4 or more dies, dead with 3 is
\* born, dead with any other count stays dead.
C1_RuleCorrectness ==
  AfterIterate =>
    \A x \in GridXs, y \in GridYs :
      Get(universe, x, y) = TableNext(Get(before, x, y), count[CellIndex(x, y)])

\* A step in which a live cell with 4 or more neighbours died, a live cell
\* with fewer than 2 died, a live cell with 2 or 3 lived and a dead cell
\* with exactly 3 was born.
C1_Witness ==
  /\ AfterIterate
  /\ \E c \in GridXs \X GridYs :
       Get(before, c[1], c[2]) /\ count[CellIndex(c[1], c[2])] >= 4
         /\ ~Get(universe, c[1], c[2])
  /\ \E c \in GridXs \X GridYs :
       Get(before, c[1], c[2]) /\ count[CellIndex(c[1], c[2])] < 2
         /\ ~Get(universe, c[1], c[2])
  /\ \E c \in GridXs \X GridYs :
       Get(before, c[1], c[2]) /\ count[CellIndex(c[1], c[2])] \in {2, 3}
         /\ Get(universe, c[1], c[2])
  /\ \E c \in GridXs \X GridYs :
       ~Get(before, c[1], c[2]) /\ count[CellIndex(c[1], c[2])] = 3
         /\ Get(universe, c[1], c[2])

\* C2: the neighbour count a step takes for cell (x, y) is the number of
\* live cells among the eight positions ((x+dx) mod W, (y+dy) mod H).
C2_ToroidalWrap ==
  AfterIterate =>
    \A x \in GridXs, y \in GridYs :
      count[CellIndex(x, y)] = TorusCount(before, x, y)

\* A step from a grid in which (0,0) is alive and the cell (W-1,0) has no
\* live neighbour on its own side of the edge: the one neighbour it counted
\* lies across the edge; the other two corners counted across it too.
C2_Witness ==
  /\ AfterIterate
  /\ Get(before, 0, 0)
  /\ count[CellIndex(GRID_WIDTH - 1, 0)] = 1
  /\ ~Get(before, GRID_WIDTH - 2, 0)
  /\ ~Get(before, GRID_WIDTH - 2, 1)
  /\ ~Get(before, GRID_WIDTH - 1, 1)
  /\ ~Get(before, GRID_WIDTH - 2, GRID_HEIGHT - 1)
  /\ ~Get(before, GRID_WIDTH - 1, GRID_HEIGHT - 1)
  /\ count[CellIndex(0, GRID_HEIGHT - 1)] >= 1
  /\ count[CellIndex(GRID_WIDTH - 1, GRID_HEIGHT - 1)] >= 1

\* C3: the grid read through get() after a step is the reference
\* transition of the grid read through get() before it.
C3_SnapshotConsistency ==
  AfterIterate =>
    \A x \in GridXs, y \in GridYs :
      Get(universe, x, y) = ReferenceStep(before)[CellIndex(x, y)]

\* A second or later step, after a touch, that changed the grid: the
\* scratch buffer it wrote held an older generation.
C3_Witness ==
  /\ AfterIterate
  /\ steps >= 2
  /\ touches >= 1
  /\ LiveCells(universe) # LiveCells(before)
  /\ LiveCells(universe) # {}

\* C4: for every coordinate of the touch square, toggle is called if and
\* only if the coordinate is inside the grid.
C4_InputMappingBounds ==
  AfterTouch =>
    \A c \in SquareOf(ev) : Called(c) <=> InGrid(c)

\* C5: every cell that a touch sample changed lies in the un-wrapped touch
\* square.
C5_TouchDoesNotWrap ==
  AfterTouch =>
    \A c \in GridXs \X GridYs :
      Get(universe, c[1], c[2]) # Get(before, c[1], c[2]) => c \in SquareOf(ev)

\* C6: after start-up the process never aborts, and every toggle call has
\* 0 <= x < W and 0 <= y < H.
C6_NoFailureAfterStartup ==
  /\ pc = "aborted" => fault = "init"
  /\ \A k \in 1..Len(calls) : InGrid(calls[k])

\* C7: with no touch input, after exactly four steps the live cells are
\* the seed's cells moved one column and one row.
C7_GliderTranslation ==
  (pc = "poll" /\ steps = 4 /\ touches = 0) =>
    LiveCells(universe) = {<<c[1] + 1, c[2] + 1>> : c \in LiveCells(Seed(New))}

\* Four steps were made and no touch sample arrived.
C7_Witness ==
  /\ pc = "poll"
  /\ steps = 4
  /\ touches = 0
  /\ Cardinality(LiveCells(universe)) = 5

\* C8: toggle(x, y) called twice in succession leaves the universe as it
\* was before the two calls, in every state and for every cell.
C8_ToggleInvolution ==
  /\ (lastOp.op = "toggle" /\ prevOp = lastOp) => universe = before2
  /\ \A x \in GridXs, y \in GridYs :
       /\ Get(Toggle(universe, x, y), x, y) # Get(universe, x, y)
       /\ Toggle(Toggle(universe, x, y), x, y) = universe

\* After a step, the same cell was toggled twice and the first of the two
\* calls had changed the grid.
C8_Witness ==
  /\ pc = "engine"
  /\ steps >= 1
  /\ lastOp.op = "toggle"
  /\ prevOp = lastOp
  /\ before # before2
  /\ LiveCells(universe) # {}

\* C9: after the render phase the image has DISP_WIDTH*DISP_HEIGHT/2 words,
\* each assigned exactly once, and the word at pixel row py and word column
\* wx is the sprite word [py mod 8][wx mod 4] when cell (wx div 4, py div 8)
\* is alive and 0 when it is dead.
C9_RenderCompleteness ==
  pc = "flush" =>
    /\ DOMAIN image = 0..((DISP_WIDTH * DISP_HEIGHT) \div 2 - 1)
    /\ \A i \in DOMAIN image : written[i] = 1
    /\ \A py \in 0..(DISP_HEIGHT - 1), wx \in 0..(DISP_WIDTH \div 2 - 1) :
         image[py * (DISP_WIDTH \div 2) + wx] =
           IF Get(universe, wx \div 4, py \div 8)
           THEN BLOCK_SPRITE[(py % 8) + 1][(wx % 4) + 1]
           ELSE ZeroWord

\* A frame rendered after a step from a grid with live and dead cells, over
\* an image that held another frame.
C9_Witness ==
  /\ pc = "flush"
  /\ steps >= 1
  /\ LiveCells(universe) # {}
  /\ LiveCells(universe) # LiveCells(before)
  /\ \E i \in DOMAIN image : image[i] # ZeroWord
  /\ \E i \in DOMAIN image : image[i] = ZeroWord

\* C10: the selector is 0 or 1 and equals the number of steps mod 2, so
\* only a step changes it; after a step the buffer that was current is the
\* scratch, with its pre-step contents.
C10_BufferRoleFlip ==
  /\ universe.cur \in {0, 1}
  /\ universe.cur = steps % 2
  /\ AfterIterate =>
       /\ universe.cur = 1 - before.cur
       /\ universe.state[1 - universe.cur] = before.state[before.cur]

\* After a touch and two steps the selector is back at 0.
C10_Witness ==
  /\ pc = "poll"
  /\ steps = 2
  /\ touches >= 1
  /\ universe.cur = 0
  /\ universe.state[0] # universe.state[1]

\* What may directly follow an event within one iteration of main's loop.
FollowsInOrder(a, b) ==
  \/ a \in {"poll", "toggle"} /\ b \in {"toggle", "render"}
  \/ a = "render" /\ b = "flush"
  \/ a = "flush" /\ b = "step"

GliderCells ==
  LET w == GRID_WIDTH \div 2
      h == GRID_HEIGHT \div 2
  IN  {<< w, h - 1 >>, << w + 1, h >>, << w - 1, h + 1 >>, << w, h + 1 >>,
       << w + 1, h + 1 >>}

\* C12: new() gives a Universe whose two buffers are all dead and whose
\* selector is 0; when main enters its loop for the first time the current
\* buffer holds exactly the five glider cells, every other cell is dead,
\* and the selector is still 0.
C12_InitialState ==
  (pc = "poll" /\ steps = 0) =>
    /\ before.cur = 0
    /\ \A b \in 0..1 : \A i \in 0..(GridCells - 1) : ~before.state[b][i]
    /\ universe.cur = 0
    /\ \A x \in GridXs : \A y \in GridYs :
         universe.state[0][y * GRID_WIDTH + x] <=> << x, y >> \in GliderCells
    /\ \A i \in 0..(GridCells - 1) : ~universe.state[1][i]

\* main stands at its first poll, five cells seeded.
C12_Witness ==
  /\ pc = "poll"
  /\ steps = 0
  /\ log = << >>
  /\ Cardinality(LiveCells(universe)) = 5
  /\ Cardinality(GliderCells) = 5

\* main is in its loop, or has been.
LoopEntered ==
  \/ pc \in {"poll", "render", "flush", "iterate"}
  \/ log # << >>
  \/ steps > 0
  \/ touches > 0

\* C13: when the touch controller fails to initialise, main is aborted at
\* once and for good: it has made no poll, toggle, render, flush or step,
\* and no Universe was seeded; and a main that has entered its loop was
\* not aborted by the failed initialisation.
C13_FatalSetupFailure ==
  /\ fault = "init" =>
       /\ pc = "aborted"
       /\ ~LoopEntered
       /\ calls = << >>
       /\ universe = New
       /\ image = ZeroImage
       /\ flushed = ZeroImage
  /\ LoopEntered => fault # "init"
  /\ pc = "init" => fault = "none"

\* The initialisation has failed.
C13_Witness ==
  /\ fault = "init"
  /\ pc = "aborted"

\* C14: after set(x, y, s) get(x, y) returns s, whichever buffer is the
\* current one, and get returns for every other cell what it returned
\* before the call; so set true followed by set false on a cell leaves it
\* dead.  In every reachable Universe this holds of any set() that may
\* come next.
C14_SetGetThroughSelector ==
  /\ lastOp.op = "set" =>
       /\ Get(universe, lastOp.x, lastOp.y) = lastOp.s
       /\ \A x \in GridXs : \A y \in GridYs :
            << x, y >> # << lastOp.x, lastOp.y >> =>
              Get(universe, x, y) = Get(before, x, y)
  /\ ( /\ lastOp = Op("set", lastOp.x, lastOp.y, FALSE)
       /\ prevOp = Op("set", lastOp.x, lastOp.y, TRUE) ) =>
       ~Get(universe, lastOp.x, lastOp.y)
  /\ pc = "engine" =>
       \A x \in GridXs : \A y \in GridYs : \A s \in BOOLEAN :
         Get(Set(universe, x, y, s), x, y) = s

\* With buffer 1 current, a cell was set alive and then set dead.
C14_Witness ==
  /\ pc = "engine"
  /\ universe.cur = 1
  /\ lastOp.op = "set" /\ ~lastOp.s
  /\ prevOp.op = "set" /\ prevOp.s
  /\ << prevOp.x, prevOp.y >> = << lastOp.x, lastOp.y >>
  /\ ~Get(before2, lastOp.x, lastOp.y)
  /\ LiveCells(universe) # {}

\* The quotient of a by b > 0 rounded toward zero, from its defining
\* property: a = q * b + rest with |rest| < b and rest of the sign of a.
Magnitude(a) == IF a < 0 THEN 0 - a ELSE a
TruncQuot(a, b) ==
  CHOOSE q \in (0 - Magnitude(a))..Magnitude(a) :
    /\ Magnitude(a - q * b) < b
    /\ a >= 0 => a - q * b >= 0
    /\ a <= 0 => a - q * b <= 0

\* The grid square of spec 4.2 for a sample: centre (x/8, y/8), radius
\* z/300 + 1.
RefR(e) == TruncQuot(e.z, PRESSURE_DIV) + 1
RefSquare(e) ==
  ((TruncQuot(e.x, BLK_SIZE) - RefR(e))..(TruncQuot(e.x, BLK_SIZE) + RefR(e)))
  \X
  ((TruncQuot(e.y, BLK_SIZE) - RefR(e))..(TruncQuot(e.y, BLK_SIZE) + RefR(e)))

\* Pressures around the sample's, to compare radii with.
PressureRange == (0 - 2 * PRESSURE_DIV)..(3 * PRESSURE_DIV)

\* C15: a sample (x, y, z) is mapped to the square of centre (x/8, y/8) and
\* radius z/300 + 1, the divisions rounding toward zero, so that a raw x in
\* (-8, 0) gives centre column 0: toggle is called only on cells of that
\* square and, when the loop runs to its end, on every cell of it that is
\* in the grid.  When the square lies inside the grid and z >= 0, exactly
\* its (2r + 1)^2 cells are toggled, each once, these cells and no others
\* change, and the scratch buffer and the selector stay.  A larger z never
\* gives a smaller radius.
C15_TouchSquare ==
  AfterTouch =>
    /\ \A k \in 1..Len(calls) : calls[k] \in RefSquare(ev)
    /\ pc # "aborted" =>
         \A c \in RefSquare(ev) : InGrid(c) => Called(c)
    /\ (ev.x > 0 - BLK_SIZE /\ ev.x < 0 /\ calls # << >> /\ pc # "aborted") =>
         {calls[k][1] : k \in 1..Len(calls)} = 0..RefR(ev)
    /\ (ev.z >= 0 /\ \A c \in RefSquare(ev) : InGrid(c)) =>
         /\ pc # "aborted"
         /\ Len(calls) = (2 * RefR(ev) + 1) * (2 * RefR(ev) + 1)
         /\ \A j, k \in 1..Len(calls) : calls[j] = calls[k] => j = k
         /\ {calls[k] : k \in 1..Len(calls)} = RefSquare(ev)
         /\ \A x \in GridXs : \A y \in GridYs :
              (Get(universe, x, y) # Get(before, x, y))
                <=> << x, y >> \in RefSquare(ev)
         /\ universe.cur = before.cur
         /\ universe.state[1 - universe.cur] = before.state[1 - before.cur]
    /\ \A z \in PressureRange :
         /\ z <= ev.z => TouchR([ev EXCEPT !.z = z]) <= TouchR(ev)
         /\ z >= ev.z => TouchR([ev EXCEPT !.z = z]) >= TouchR(ev)

\* A sample with z >= 0 whose square of nine cells lies inside the grid has
\* been applied.
C15_Witness ==
  /\ AfterTouch
  /\ pc = "iterate"
  /\ ev.z >= 0
  /\ \A c \in RefSquare(ev) : InGrid(c)
  /\ Len(calls) = 9
  /\ LiveCells(universe) # LiveCells(before)

\* C16: toggle(x, y) inverts cell (x, y) of the current buffer and nothing
\* else: every other cell of the current buffer, the whole scratch buffer
\* and the selector are as before the call.
C16_ToggleFrame ==
  lastOp.op = "toggle" =>
    LET c == universe.cur
        k == lastOp.y * GRID_WIDTH + lastOp.x
    IN  /\ c = before.cur
        /\ universe.state[c][k] = ~before.state[c][k]
        /\ \A i \in 0..(GridCells - 1) :
             i # k => universe.state[c][i] = before.state[c][i]
        /\ universe.state[1 - c] = before.state[1 - c]

\* toggle has acted with buffer 1 current, on a grid with live cells in
\* both buffers, and has made a live cell dead.
C16_Witness ==
  /\ pc = "engine"
  /\ lastOp.op = "toggle"
  /\ universe.cur = 1
  /\ Get(before, lastOp.x, lastOp.y)
  /\ \E i \in 0..(GridCells - 1) : universe.state[0][i]
  /\ \E i \in 0..(GridCells - 1) : universe.state[1][i]

\* C17: once main is in its loop the loop goes round for ever: from every
\* poll main gets to the step of that iteration, and from there to the next
\* poll, whatever sample the poll returned.
C17_LoopNeverTerminates ==
  /\ (pc = "poll") ~> (pc = "iterate")
  /\ (pc = "iterate") ~> (pc = "poll")

\* The Universe u with other contents in its scratch buffer, and the
\* contents tried: all dead, all alive, a copy of the current buffer and its
\* complement.
WithScratch(u, s) == [u EXCEPT !.state[1 - u.cur] = s]
AltScratch(u) ==
  { [i \in 0..(GridCells - 1) |-> FALSE],
    [i \in 0..(GridCells - 1) |-> TRUE],
    u.state[u.cur],
    [i \in 0..(GridCells - 1) |-> ~u.state[u.cur][i]] }

\* C18: what a step leaves in the current buffer does not depend on what
\* the scratch buffer held before it: a Universe with the same current
\* buffer and selector as the one the step started from, but with other
\* scratch contents, is stepped to the same current buffer and selector.
C18_StepIgnoresScratch ==
  AfterIterate =>
    \A s \in AltScratch(before) :
      LET v == Iterate(WithScratch(before, s))
      IN  /\ v.cur = universe.cur
          /\ v.state[v.cur] = universe.state[universe.cur]

\* A step was taken from a Universe whose scratch buffer held an older
\* generation, none of the contents tried, and the result differs from it.
C18_Witness ==
  /\ pc = "engine"
  /\ lastOp.op = "iterate"
  /\ steps >= 2
  /\ before.state[1 - before.cur] \notin AltScratch(before)
  /\ universe.state[universe.cur] # before.state[1 - before.cur]
  /\ LiveCells(universe) # {}

\* The picture of a Universe: word i of the frame lies in pixel row
\* i div (DISP_WIDTH/2) and word column i mod (DISP_WIDTH/2), and shows the
\* sprite where the cell of that block is alive in the current buffer.
FrameOf(u) ==
  [i \in 0..((DISP_WIDTH * DISP_HEIGHT) \div 2 - 1) |->
     LET py == i \div (DISP_WIDTH \div 2)
         wx == i % (DISP_WIDTH \div 2)
     IN  IF u.state[u.cur][(py \div 8) * GRID_WIDTH + (wx \div 4)]
         THEN BLOCK_SPRITE[(py % 8) + 1][(wx % 4) + 1]
         ELSE ZeroWord]

\* C19: the frame flushed in an iteration shows exactly the grid that the
\* step of that iteration starts from: the grid is not changed between
\* render and step, a touch edit is on the frame before it is evolved, and
\* without a sample the frame shows the result of the step before.
C19_FrameIsSteppedState ==
  /\ pc \in {"flush", "iterate"} => image = FrameOf(universe)
  /\ pc = "iterate" =>
       /\ flushed = FrameOf(universe)
       /\ ev.some => universe = ApplyTouch(before, ev).u
       /\ (~ev.some /\ steps > 0) => universe = Iterate(before)
       /\ (~ev.some /\ steps = 0) => universe = Seed(New)
  /\ (pc = "poll" /\ log # << >>) =>
       /\ flushed = FrameOf(before)
       /\ universe = Iterate(before)

\* Two iterations have run, the first with a touch sample and the second
\* without one: the frame of the second shows the grid the first step made.
C19_Witness ==
  /\ pc = "poll"
  /\ steps = 2
  /\ touches = 1
  /\ ~ev.some
  /\ flushed = FrameOf(before)
  /\ flushed # ZeroImage
  /\ LiveCells(universe) # LiveCells(before)

====
